---- MODULE Spec2Model ----
(***************************************************************************)
(* A model of struct-searcher: the staged relaxation controller            *)
(* (bin.py: run_lammps, run_lammps_as_one_cycle, relax_step_by_step), the  *)
(* convergence classifier (utils.py: check_previous_relaxation), the       *)
(* candidate structure builder (struct.py: create_sample_struct_file) and  *)
(* the structure deduplicator (bin.py: extract_unique_structures,          *)
(* analyze_duplicate_structures).                                          *)
(*                                                                         *)
(* Units.  Energies are integers in units of 10 eV (so 1e08 eV is          *)
(* 10000000 and the default 1e10 eV of run_lammps is 1000000000);          *)
(* distances are integers in units of 1e-3 Angstrom; volumes are integers  *)
(* in Angstrom^3; characteristic distances are integers in Angstrom.       *)
(***************************************************************************)
EXTENDS Integers, Sequences, FiniteSets, TLC

VARIABLES
    \* ---- relaxation controller: one structure directory of a batch ----
    pc,                 \* position in relax_step_by_step
    i,                  \* loop variable of the running stage loop
    log_file,           \* log_<rid>.lammps (cid 0) and log_<rid>-<cid>.lammps
    final_structure,    \* final_structure_<rid> (cid 0) and its archives
    initial_structure,  \* initial_structure_<rid> (cid 0) and its archives
    calc_stats_json,    \* calc_stats.json
    err_log,            \* err.log: who appended a traceback, in order
    calls,              \* history: the minimizer cycles invoked so far
    sid,                \* index of the structure being processed in the batch
    \* ---- convergence classifier as a function of its inputs ----
    cls_in,             \* inputs of check_previous_relaxation
    cls_out,            \* its result
    \* ---- candidate structure builder ----
    spc,                \* position in create_sample_struct_file
    cnt,                \* widening counter
    g_min,              \* lower bound of the cell sampler (thousandths of g_max)
    niggli,             \* the cell sampled last
    dist_tol,           \* (0.75 d)^2 * 4 in thousandths of g_max
    min_dist,           \* 4 * (minimum distance)^2 of the coordinates drawn last
    n_atom_total,       \* sum(n_atom_for_each_element)
    n_draw,             \* history: number of cells sampled so far (counted up to DrawCap)
    n_too_close,        \* history: iterations rejected by the distance test
                        \* (counted up to MAX_CNT + 1)
    \* ---- structure deduplicator ----
    dpc,                \* position in analyze_duplicate_structures
    structure_ids,      \* the ids to scan
    relaxed,            \* per id: terminal file present, energy, space group
    k,                  \* scan position in structure_ids
    energies,           \* energies of the unique records
    space_groups,       \* space-group labels of the unique records
    duplicate_structure_ids, \* member-id lists of the unique records
    analysed,           \* history: ids handed to find_same_structure
    unsorted,           \* history: the three lists as they were before sorting
    \* ---- functions evaluated on their own ----
    fn,                 \* the function under evaluation ("" when none is)
    fn_in,              \* its arguments
    fn_out,             \* its result (<<>> while it has not returned)
    \* ---- _calc_diatom_energy ----
    dia_pc,             \* position in _calc_diatom_energy
    struct_file_object, \* the temporary structure file
    command_file_object,\* the temporary command file
    \* ---- calc_begin_id_of_dir ----
    children,           \* the entries of the root directory
    begin_ids           \* history: the ids returned so far

ctl_vars == <<pc, i, log_file, final_structure, initial_structure,
              calc_stats_json, err_log, calls, sid>>
cls_vars == <<cls_in, cls_out>>
smp_vars == <<spc, cnt, g_min, niggli, dist_tol, min_dist, n_atom_total, n_draw,
              n_too_close>>
ddp_vars == <<dpc, structure_ids, relaxed, k, energies, space_groups,
              duplicate_structure_ids, analysed, unsorted>>
fun_vars == <<fn, fn_in, fn_out>>
dia_vars == <<dia_pc, struct_file_object, command_file_object>>
dir_vars == <<children, begin_ids>>
vars == <<ctl_vars, cls_vars, smp_vars, ddp_vars, fun_vars, dia_vars, dir_vars>>

(***************************************************************************)
(* Program constants                                                       *)
(***************************************************************************)
max_iteration == 10
E_UPPER == 10000000
E_LOWER == -100
E_DEFAULT == 1000000000
DTOL == 10
Pi1000 == 3142
VOLUME_FACTOR == 200
MAX_CNT == 1000
G_MAX == 1000

(***************************************************************************)
(* Bounds of the model                                                     *)
(***************************************************************************)
NStructures == 2
DrawCap == 2
MaxIds == 3
MaxRecords == 3

Rids == {"01", "02"}

(***************************************************************************)
(* Structure file contents.  ver is the number of the minimizer cycle      *)
(* that wrote the structure (0: the generated sample), volume and dmin its *)
(* cell volume and minimum periodic interatomic distance, d the largest    *)
(* characteristic distance of its species and n_atom its atom count.       *)
(***************************************************************************)
NoStruct == [ver |-> -1, volume |-> 0, dmin |-> 0, d |-> 0, n_atom |-> 0, refined |-> FALSE]
SampleStruct == [ver |-> 0, volume |-> 100, dmin |-> 2250, d |-> 3, n_atom |-> 2, refined |-> FALSE]
Exists(s) == s.ver >= 0

LogKinds == {"ftol", "unfinished", "other", "malformed"}

(***************************************************************************)
(* ConvergenceClassifier (utils.py).                                       *)
(***************************************************************************)

\* parse_lammps_log: the termination reason of a minimizer log.  "RAISE"
\* stands for the exception raised on a missing or malformed log.
parse_lammps_log(log) ==
    CASE log = "ftol"       -> "CONVERGED"
      [] log = "unfinished" -> "UNFINISHED"
      [] log = "other"      -> "STOP: unrecognized termination"
      [] OTHER              -> "RAISE"

\* The energy test with strict comparisons
energy_out_of_bounds_strict(energy) == energy > E_UPPER \/ energy < E_LOWER

\* calc_stats["energy"] >= 1e08 or calc_stats["energy"] <= -1e03
energy_out_of_bounds(energy) == energy >= E_UPPER \/ energy <= E_LOWER

\* structure.volume >= 200 * 4 * pi * (0.5 * d) ** 3 / 3, cleared of fractions
volume_reaches_ceiling(structure) ==
    structure.volume * 8 * 3 * 1000
        >= VOLUME_FACTOR * 4 * Pi1000 * structure.d * structure.d * structure.d

\* has_enough_space_between_atoms(..., dtol): the minimum periodic distance
\* of the structure is not below the tolerance
has_enough_space_dtol(structure, dtol) == structure.dmin >= dtol

\* check_previous_relaxation with the "not" of the nearest-neighbour test lost
check_previous_relaxation_inverted_distance(calc_stats, log, structure) ==
    LET parsed == parse_lammps_log(log)
        s1 == IF energy_out_of_bounds(calc_stats.energy) THEN "stop" ELSE parsed
        s2 == IF volume_reaches_ceiling(structure) THEN "stop" ELSE s1
        s3 == IF s2 # "stop" /\ has_enough_space_dtol(structure, DTOL)
              THEN "stop" ELSE s2
    IN  IF parsed = "RAISE" \/ ~Exists(structure)
        THEN [raised |-> TRUE, status |-> "RAISE"]
        ELSE [raised |-> FALSE, status |-> s3]

\* check_previous_relaxation: [raised, status], raised when parse_lammps_log
\* or LammpsData.from_file raises
check_previous_relaxation(calc_stats, log, structure) ==
    LET parsed == parse_lammps_log(log)
        s1 == IF energy_out_of_bounds(calc_stats.energy) THEN "stop" ELSE parsed
        s2 == IF volume_reaches_ceiling(structure) THEN "stop" ELSE s1
        s3 == IF s2 # "stop" /\ ~has_enough_space_dtol(structure, DTOL)
              THEN "stop" ELSE s2
    IN  IF parsed = "RAISE" \/ ~Exists(structure)
        THEN [raised |-> TRUE, status |-> "RAISE"]
        ELSE [raised |-> FALSE, status |-> s3]

\* The try block of run_lammps_as_one_cycle around check_previous_relaxation
judge(calc_stats, log, structure) ==
    LET r == check_previous_relaxation(calc_stats, log, structure)
    IN  IF r.raised THEN [raised |-> TRUE, status |-> "STOP: an error is raised"]
        ELSE r

\* Python's  "STOP" in result_status  (case-sensitive substring test) on the
\* statuses the program produces
ContainsSTOP(status) ==
    status \in {"STOP: unrecognized termination", "STOP: an error is raised"}

(***************************************************************************)
(* RelaxationController (bin.py).                                          *)
(***************************************************************************)

\* What one invocation of the external minimizer does: it may raise before
\* it opened its log, while it runs the command file, or after it wrote the
\* final structure; or it returns an energy.
Written(ver, volume, dmin) ==
    [ver |-> ver, volume |-> volume, dmin |-> dmin, d |-> 3, n_atom |-> 2,
     refined |-> FALSE]

\* What a minimizer run that returns leaves: a log kind, an energy, and the
\* volume and minimum distance of the structure it wrote (2828 is the first
\* integer volume at the ceiling for d = 3)
Returned(ver) ==
    {[raised |-> FALSE, wrote_log |-> TRUE, log |-> c[1], wrote_final |-> TRUE,
      structure |-> Written(ver, c[3], c[4]), energy |-> c[2]] :
        c \in {<<"ftol", 0, 2827, DTOL>>,
               <<"unfinished", 0, 2827, DTOL>>,
               <<"other", 0, 2827, DTOL>>,
               <<"malformed", 0, 2827, DTOL>>,
               <<"ftol", E_UPPER, 2827, DTOL>>,
               <<"unfinished", E_LOWER, 2827, DTOL>>,
               <<"unfinished", 0, 2828, DTOL>>,
               <<"ftol", 0, 2827, DTOL - 1>>}}

Outcomes(ver) ==
    [raised : {TRUE}, wrote_log : {FALSE}, log : {"unfinished"},
     wrote_final : {FALSE}, structure : {NoStruct}, energy : {0}]
    \cup
    [raised : {TRUE}, wrote_log : {TRUE}, log : {"unfinished", "malformed"},
     wrote_final : {FALSE}, structure : {NoStruct}, energy : {0}]
    \cup
    [raised : {TRUE}, wrote_log : {TRUE}, log : {"ftol"},
     wrote_final : {TRUE}, structure : {Written(ver, 2827, DTOL)}, energy : {0}]
    \cup
    Returned(ver)

\* run_lammps: the calc_stats it returns
run_lammps(o) ==
    IF o.raised
    THEN [energy |-> E_DEFAULT, has_energy_per_atom |-> FALSE, energy_per_atom |-> 0]
    ELSE [energy |-> o.energy, has_energy_per_atom |-> TRUE,
          energy_per_atom |-> o.energy \div o.structure.n_atom]

NoJson == [exists |-> FALSE, keys |-> {},
           energy_per_atom |-> [r \in Rids |-> <<>>],
           result_status |-> [r \in Rids |-> <<>>]]

\* Files of the output directory: a function from the names of the files
\* that exist to their content
HasFile(files, name) == name \in DOMAIN files
Put(files, name, content) ==
    [n \in DOMAIN files \cup {name} |-> IF n = name THEN content ELSE files[n]]
Content(files, name) == IF HasFile(files, name) THEN files[name] ELSE NoStruct

\* A cycle that archives its input after the output was promoted over it
structure_to_archive_after_promotion(initial, final, rid) ==
    IF HasFile(final, <<rid, 0>>) THEN final[<<rid, 0>>] ELSE initial[<<rid, 0>>]

\* shutil.copy(old_initial_structure_path, new_initial_structure_path) comes
\* before the copy of the final structure over the initial one: what is
\* archived is the structure the minimizer started from
structure_to_archive(initial, final, rid) == initial[<<rid, 0>>]

\* A cycle that empties the lists of its stage whatever its id
is_first_cycle_always(cid) == TRUE

\* if cycle_id == "01"
is_first_cycle(cid) == cid = 1

\* run_lammps_as_one_cycle: the state it leaves and how it ends.
\* ended is "returned" or "raised" (an exception leaves the function).
run_lammps_as_one_cycle(rid, cid, o) ==
    LET calc_stats == run_lammps(o)
        err1 == IF o.raised THEN Append(err_log, "run_lammps") ELSE err_log
        log1 == IF o.wrote_log THEN Put(log_file, <<rid, 0>>, o.log) ELSE log_file
        fin1 == IF o.wrote_final THEN Put(final_structure, <<rid, 0>>, o.structure)
                ELSE final_structure
        has_log == HasFile(log1, <<rid, 0>>)
        has_final == HasFile(fin1, <<rid, 0>>)
        has_initial == HasFile(initial_structure, <<rid, 0>>)
        \* shutil.copy(old_log_file_path, new_log_file_path)
        log2 == IF has_log THEN Put(log1, <<rid, cid>>, log1[<<rid, 0>>]) ELSE log1
        \* shutil.copy(old_final_structure_path, new_final_structure_path)
        fin2 == IF has_final THEN Put(fin1, <<rid, cid>>, fin1[<<rid, 0>>]) ELSE fin1
        \* shutil.copy(old_initial_structure_path, new_initial_structure_path)
        ini1 == IF has_initial
                THEN Put(initial_structure, <<rid, cid>>,
                         structure_to_archive(initial_structure, fin1, rid))
                ELSE initial_structure
        \* shutil.copy(old_final_structure_path, old_initial_structure_path)
        ini2 == IF has_final THEN Put(ini1, <<rid, 0>>, fin1[<<rid, 0>>]) ELSE ini1
        judged == judge(calc_stats,
                        IF has_log THEN log1[<<rid, 0>>] ELSE "malformed",
                        Content(fin1, <<rid, 0>>))
        err2 == IF judged.raised THEN Append(err1, "check_previous_relaxation")
                ELSE err1
        js1 == IF is_first_cycle(cid)
               THEN [calc_stats_json EXCEPT !.keys = @ \cup {rid},
                                            !.energy_per_atom[rid] = <<>>,
                                            !.result_status[rid] = <<>>]
               ELSE calc_stats_json
        js2 == [js1 EXCEPT !.exists = TRUE,
                           !.energy_per_atom[rid] = Append(@, calc_stats.energy_per_atom),
                           !.result_status[rid] = Append(@, judged.status)]
    IN  IF ~has_log
        THEN \* FileNotFoundError from copying the log
             [ended |-> "raised", status |-> "FileNotFoundError", log |-> log1,
              final |-> fin1, initial |-> initial_structure,
              json |-> calc_stats_json, err |-> err1]
        ELSE IF ~has_initial
        THEN \* FileNotFoundError from copying the initial structure
             [ended |-> "raised", status |-> "FileNotFoundError", log |-> log2,
              final |-> fin2, initial |-> initial_structure,
              json |-> calc_stats_json, err |-> err1]
        ELSE IF rid \notin js1.keys \/ ~calc_stats.has_energy_per_atom
        THEN \* KeyError from calc_stats["energy_per_atom"]
             [ended |-> "raised", status |-> "KeyError", log |-> log2,
              final |-> fin2, initial |-> ini2,
              json |-> calc_stats_json, err |-> err2]
        ELSE [ended |-> "returned", status |-> judged.status, log |-> log2,
              final |-> fin2, initial |-> ini2, json |-> js2, err |-> err2]

\* A stage-1 loop that breaks only on the converged status and so goes on
\* cycling after a status that is neither UNFINISHED nor a STOP
stage1_decision_break_on_converged_only(result_status) ==
    IF ContainsSTOP(result_status) THEN "return"
    ELSE IF result_status = "CONVERGED" THEN "break"
    ELSE "continue"

\* relax_step_by_step, "Do easy relaxation": what the loop body does with
\* the status of the cycle
stage1_decision(result_status) ==
    IF ContainsSTOP(result_status) THEN "return"
    ELSE IF result_status # "UNFINISHED" THEN "break"
    ELSE "continue"

\* relax_step_by_step, "Do hard relaxation"
stage2_decision(result_status) ==
    IF result_status # "UNFINISHED" THEN "return" ELSE "continue"

\* for i in range(max_iteration): is there another iteration after i
has_next_iteration(idx) == idx + 1 < max_iteration

\* The directory generate_input_files_for_relaxation leaves: the sample
\* structure as initial_structure_01 and no other structure or log
NoFiles == [n \in {} |-> NoStruct]
FreshInitials == [n \in {<<"01", 0>>} |-> SampleStruct]

CtlInit ==
    /\ pc = "stage1"
    /\ i = 0
    /\ log_file = NoFiles
    /\ final_structure = NoFiles
    /\ initial_structure = FreshInitials
    /\ calc_stats_json = NoJson
    /\ err_log = <<>>
    /\ calls = <<>>
    /\ sid = 1

Record(rid, cid, o, r) ==
    Append(calls, [rid |-> rid, cid |-> cid, minimizer_raised |-> o.raised,
                   energy_per_atom |-> run_lammps(o).energy_per_atom,
                   physical_stop |-> r.status = "stop",
                   ended |-> r.ended, status |-> r.status])

Effects(r) ==
    /\ log_file' = r.log
    /\ final_structure' = r.final
    /\ initial_structure' = r.initial
    /\ calc_stats_json' = r.json
    /\ err_log' = r.err

\* One iteration of the stage-1 loop of relax_step_by_step
RunStage1 ==
    /\ pc = "stage1"
    /\ \E o \in Outcomes(Len(calls) + 1) :
        LET r == run_lammps_as_one_cycle("01", i + 1, o)
            decision == stage1_decision(r.status)
        IN  /\ Effects(r)
            /\ calls' = Record("01", i + 1, o, r)
            /\ pc' = IF r.ended = "raised" THEN "raised"
                     ELSE IF decision = "return" THEN "returned"
                     ELSE IF decision = "break" THEN "refine"
                     ELSE IF has_next_iteration(i) THEN "stage1" ELSE "refine"
            /\ i' = IF r.ended = "returned" /\ decision = "continue"
                       /\ has_next_iteration(i)
                    THEN i + 1 ELSE i
    /\ UNCHANGED sid

\* "Refine the structure after 1st relaxation": the symmetry analysis is an
\* external collaborator that may raise
Refine ==
    /\ pc = "refine"
    /\ \E analysis_ok \in BOOLEAN :
        LET relaxed_structure == Content(final_structure, <<"01", 0>>)
        IN  IF Exists(relaxed_structure) /\ analysis_ok
            THEN /\ initial_structure' =
                        Put(initial_structure, <<"02", 0>>,
                            [relaxed_structure EXCEPT !.refined = TRUE])
                 /\ pc' = "stage2"
                 /\ i' = 0
                 /\ UNCHANGED err_log
            ELSE /\ err_log' = Append(err_log, "refine")
                 /\ pc' = "returned"
                 /\ UNCHANGED <<initial_structure, i>>
    /\ UNCHANGED <<log_file, final_structure, calc_stats_json, calls, sid>>

\* One iteration of the stage-2 loop of relax_step_by_step
RunStage2 ==
    /\ pc = "stage2"
    /\ \E o \in Outcomes(Len(calls) + 1) :
        LET r == run_lammps_as_one_cycle("02", i + 1, o)
            decision == stage2_decision(r.status)
        IN  /\ Effects(r)
            /\ calls' = Record("02", i + 1, o, r)
            /\ pc' = IF r.ended = "raised" THEN "raised"
                     ELSE IF decision = "return" THEN "returned"
                     ELSE IF has_next_iteration(i) THEN "stage2" ELSE "returned"
            /\ i' = IF r.ended = "returned" /\ decision = "continue"
                       /\ has_next_iteration(i)
                    THEN i + 1 ELSE i
    /\ UNCHANGED sid

\* relax_by_mlp: the batch goes on with the next structure directory once
\* relax_step_by_step has returned; an exception that left it ends the batch
NextStructure ==
    /\ pc = "returned"
    /\ sid < NStructures
    /\ sid' = sid + 1
    /\ pc' = "stage1"
    /\ i' = 0
    /\ log_file' = NoFiles
    /\ final_structure' = NoFiles
    /\ initial_structure' = FreshInitials
    /\ calc_stats_json' = NoJson
    /\ err_log' = <<>>
    /\ calls' = <<>>

ClsPending == [done |-> FALSE, raised |-> FALSE, status |-> "", judged |-> ""]
ClsIdle ==
    /\ cls_in = [energy |-> 0, log |-> "malformed", structure |-> NoStruct]
    /\ cls_out = ClsPending
SmpIdle == spc = "idle" /\ cnt = 0 /\ g_min = 0 /\ niggli = <<>> /\ dist_tol = 0 /\ min_dist = 0 /\ n_atom_total = 0 /\ n_draw = 0 /\ n_too_close = 0
DdpIdle == dpc = "idle" /\ structure_ids = <<>> /\ relaxed = <<>> /\ k = 0 /\ energies = <<>> /\ space_groups = <<>> /\ duplicate_structure_ids = <<>> /\ analysed = <<>> /\ unsorted = <<>>
FunIdle == fn = "" /\ fn_in = <<>> /\ fn_out = <<>>
\* A temporary file that has not been created
NoTempFile == [state |-> "none", content |-> <<>>]
DiaIdle == dia_pc = "idle" /\ struct_file_object = NoTempFile /\ command_file_object = NoTempFile
DirIdle == children = {} /\ begin_ids = <<>>

Init == CtlInit /\ ClsIdle /\ SmpIdle /\ DdpIdle /\ FunIdle /\ DiaIdle /\ DirIdle

Next ==
    \/ RunStage1 /\ UNCHANGED <<cls_vars, smp_vars, ddp_vars, fun_vars, dia_vars, dir_vars>>
    \/ Refine /\ UNCHANGED <<cls_vars, smp_vars, ddp_vars, fun_vars, dia_vars, dir_vars>>
    \/ RunStage2 /\ UNCHANGED <<cls_vars, smp_vars, ddp_vars, fun_vars, dia_vars, dir_vars>>
    \/ NextStructure /\ UNCHANGED <<cls_vars, smp_vars, ddp_vars, fun_vars, dia_vars, dir_vars>>

Spec == Init /\ [][Next]_vars

(***************************************************************************)
(* check_previous_relaxation as a function of its inputs: the energy of    *)
(* calc_stats, the log of the stage and the final structure of the stage.  *)
(* 838 and 2828 are the first integer volumes at the ceiling for d = 2 and *)
(* d = 3.                                                                  *)
(***************************************************************************)
ClsEnergies ==
    {E_LOWER - 1, E_LOWER, E_LOWER + 1, 0, E_UPPER - 1, E_UPPER, E_DEFAULT}
ClsStructures ==
    {NoStruct} \cup
    [ver : {1}, volume : {837, 838, 2827, 2828},
     dmin : {0, DTOL - 1, DTOL, DTOL + 1}, d : {2, 3}, n_atom : {1, 2, 12},
     refined : {FALSE}]

ClsInit ==
    /\ cls_in \in [energy : ClsEnergies, log : LogKinds, structure : ClsStructures]
    /\ cls_out = ClsPending

Classify ==
    /\ ~cls_out.done
    /\ LET r == check_previous_relaxation([energy |-> cls_in.energy],
                                          cls_in.log, cls_in.structure)
           j == judge([energy |-> cls_in.energy], cls_in.log, cls_in.structure)
       IN  cls_out' = [done |-> TRUE, raised |-> r.raised, status |-> r.status,
                       judged |-> j.status]
    /\ UNCHANGED cls_in

CtlIdle ==
    /\ pc = "idle"
    /\ i = 0
    /\ log_file = NoFiles
    /\ final_structure = NoFiles
    /\ initial_structure = NoFiles
    /\ calc_stats_json = NoJson
    /\ err_log = <<>>
    /\ calls = <<>>
    /\ sid = 0

ClsNext == Classify /\ UNCHANGED <<ctl_vars, smp_vars, ddp_vars, fun_vars, dia_vars, dir_vars>>

ClassifierInit == CtlIdle /\ ClsInit /\ SmpIdle /\ DdpIdle /\ FunIdle /\ DiaIdle /\ DirIdle

SpecClassifier == ClassifierInit /\ [][ClsNext]_vars

(***************************************************************************)
(* CandidateStructureBuilder (struct.py).                                  *)
(*                                                                         *)
(* Lengths squared are integers in units of g_max / 1000, so g_max is      *)
(* G_MAX = 1000 whatever its value, g_min = (cnt / 1000) * g_max is cnt,   *)
(* and the tolerance (0.75 d)^2 of the distance test, in the same units,   *)
(* grows as g_max shrinks.  Squared distances are kept times 4.            *)
(***************************************************************************)

\* random.uniform(lo, hi) on a grid of the interval
Uniform(lo, hi) == {lo, hi}

SortTriple(t) ==
    LET lo == IF t[1] <= t[2] /\ t[1] <= t[3] THEN t[1]
              ELSE IF t[2] <= t[3] THEN t[2] ELSE t[3]
        hi == IF t[1] >= t[2] /\ t[1] >= t[3] THEN t[1]
              ELSE IF t[2] >= t[3] THEN t[2] ELSE t[3]
    IN  <<lo, t[1] + t[2] + t[3] - lo - hi, hi>>

\* The draws of one pass of the loop of create_niggli_cell
NiggliDraws(g_max, gmin) ==
    UNION { LET g == SortTriple(t)
            IN  {<<g[1], g[2], g[3], g4, g5, g6>> :
                    g4 \in Uniform(-(g[1] \div 2), g[1] \div 2) \cup {0},
                    g5 \in Uniform(0, g[1] \div 2),
                    g6 \in Uniform(0, g[2] \div 2)}
          : t \in Uniform(gmin, g_max) \X Uniform(gmin, g_max) \X Uniform(gmin, g_max) }

\* A sampler that returns its first draw
create_niggli_cell_first_draw(g_max, gmin) == NiggliDraws(g_max, gmin)

\* create_niggli_cell: the draws that leave its loop
create_niggli_cell(g_max, gmin) ==
    {c \in NiggliDraws(g_max, gmin) : c[1] + c[2] + 2 * c[4] >= 2 * c[5] + 2 * c[6]}

\* lattice.volume ** 2: the Gram determinant of the cell
VolumeSquared(c) ==
    c[1] * c[2] * c[3] + 2 * c[4] * c[5] * c[6]
        - c[1] * c[6] * c[6] - c[2] * c[5] * c[5] - c[3] * c[4] * c[4]

\* lattice.volume >= g_max ** (3 / 2)
volume_too_large(c, g_max) == VolumeSquared(c) >= g_max * g_max * g_max

\* 4 * min_distance ** 2 of random coordinates in the cell: between 0 and
\* (a + b + c) ** 2 <= 3 * (g1 + g2 + g3), on a grid
MinDistances(c) == {0, 3 * (c[1] + c[2] + c[3])}

\* A distance test that passes every structure
has_enough_space_unchecked(min_distance_sq4, tol_sq4) == TRUE

\* has_enough_space_between_atoms: min_distance >= 0.75 * d, squared
has_enough_space_between_atoms(min_distance_sq4, tol_sq4) ==
    min_distance_sq4 >= tol_sq4

\* The tolerances 4 * (0.75 d)^2 of the model: none, one that only the
\* largest cell can meet, and one that no cell can meet (a tiny g_max)
DistTols == {0, 9 * G_MAX, 9 * G_MAX + 1}

\* A builder without the branch for one atom
n_atom_is_one_never(n_atom) == FALSE

\* if n_atom == 1
n_atom_is_one(n_atom) == n_atom = 1

SmpInit ==
    /\ spc = "loop"
    /\ cnt = 0
    /\ g_min = 0
    /\ niggli = <<>>
    /\ dist_tol \in DistTols
    /\ min_dist = 0
    /\ n_atom_total \in {1, 2, 3}
    /\ n_draw = 0
    /\ n_too_close = 0

Drawn == n_draw' = IF n_draw < DrawCap THEN n_draw + 1 ELSE n_draw

\* One pass of the loop of create_sample_struct_file that ends in "continue"
\* at the volume check
RejectVolume ==
    /\ spc = "loop"
    /\ \E c \in create_niggli_cell(G_MAX, g_min) : volume_too_large(c, G_MAX)
    /\ Drawn
    /\ UNCHANGED <<spc, cnt, g_min, niggli, dist_tol, min_dist, n_atom_total,
                   n_too_close>>

\* One pass that ends in the break of "if n_atom == 1"
AcceptSingleAtom ==
    /\ spc = "loop"
    /\ n_atom_is_one(n_atom_total)
    /\ \E c \in create_niggli_cell(G_MAX, g_min) :
        /\ ~volume_too_large(c, G_MAX)
        /\ niggli' = c
    /\ spc' = "done"
    /\ Drawn
    /\ UNCHANGED <<cnt, g_min, dist_tol, min_dist, n_atom_total, n_too_close>>

\* One pass that ends in the break after has_enough_space_between_atoms
AcceptSpaced ==
    /\ spc = "loop"
    /\ ~n_atom_is_one(n_atom_total)
    /\ \E c \in create_niggli_cell(G_MAX, g_min) :
        /\ ~volume_too_large(c, G_MAX)
        /\ \E q \in MinDistances(c) :
            /\ has_enough_space_between_atoms(q, dist_tol)
            /\ niggli' = c
            /\ min_dist' = q
    /\ spc' = "done"
    /\ Drawn
    /\ UNCHANGED <<cnt, g_min, dist_tol, n_atom_total, n_too_close>>

TooClose ==
    /\ spc = "loop"
    /\ ~n_atom_is_one(n_atom_total)
    /\ \E c \in create_niggli_cell(G_MAX, g_min) :
        /\ ~volume_too_large(c, G_MAX)
        /\ \E q \in MinDistances(c) : ~has_enough_space_between_atoms(q, dist_tol)
    /\ n_too_close' = IF n_too_close <= MAX_CNT THEN n_too_close + 1 ELSE n_too_close

\* A builder that widens twice as fast
widened_g_min_doubled(c, g_max) == (2 * c * g_max) \div 1000

\* g_min = (cnt / 1000) * g_max
widened_g_min(c, g_max) == (c * g_max) \div 1000

\* One pass that fails the distance test with cnt < 1000
Widen ==
    /\ TooClose
    /\ cnt < MAX_CNT
    /\ cnt' = cnt + 1
    /\ g_min' = widened_g_min(cnt + 1, G_MAX)
    /\ Drawn
    /\ UNCHANGED <<spc, niggli, dist_tol, min_dist, n_atom_total>>

\* One pass that fails the distance test with cnt = 1000: neither branch of
\* the if statement is taken and the loop goes round again
Retry ==
    /\ TooClose
    /\ ~(cnt < MAX_CNT)
    /\ Drawn
    /\ UNCHANGED <<spc, cnt, g_min, niggli, dist_tol, min_dist, n_atom_total>>

SmpNext ==
    \/ RejectVolume /\ UNCHANGED <<ctl_vars, cls_vars, ddp_vars, fun_vars, dia_vars, dir_vars>>
    \/ AcceptSingleAtom /\ UNCHANGED <<ctl_vars, cls_vars, ddp_vars, fun_vars, dia_vars, dir_vars>>
    \/ AcceptSpaced /\ UNCHANGED <<ctl_vars, cls_vars, ddp_vars, fun_vars, dia_vars, dir_vars>>
    \/ Widen /\ UNCHANGED <<ctl_vars, cls_vars, ddp_vars, fun_vars, dia_vars, dir_vars>>
    \/ Retry /\ UNCHANGED <<ctl_vars, cls_vars, ddp_vars, fun_vars, dia_vars, dir_vars>>

SamplerInit == CtlIdle /\ ClsIdle /\ SmpInit /\ DdpIdle /\ FunIdle /\ DiaIdle /\ DirIdle

SpecSampler == SamplerInit /\ [][SmpNext]_vars

(***************************************************************************)
(* StructureDeduplicator (bin.py).                                         *)
(*                                                                         *)
(* Structure ids are 1, 2, ...; relaxed[id] says whether the directory of  *)
(* the id holds final_structure_02 and gives the energy and space-group    *)
(* label the analysis of that structure yields.  Record indices are        *)
(* Python's (from 0); the lists of the model are indexed from 1.           *)
(***************************************************************************)
ENERGY_TOL == 1
EnergyValues == {0, 1, 3}
SpaceGroupLabels == {"P1", "Fm-3m"}

Abs(x) == IF x < 0 THEN -x ELSE x
MinOf(set) == CHOOSE x \in set : \A y \in set : x <= y

\* find_same_structure: the energy and label of the structure and the index
\* of the first record with the same label and an energy within tolerance,
\* -1 when there is none
find_same_structure(id, es, sgs) ==
    LET energy == relaxed[id].energy
        space_group == relaxed[id].space_group
        same == {j \in 1..Len(es) :
                    Abs(es[j] - energy) <= ENERGY_TOL /\ sgs[j] = space_group}
    IN  [sid |-> IF same = {} THEN -1 ELSE MinOf(same) - 1,
         energy |-> energy, space_group |-> space_group]

\* struct_file_path.exists()
struct_file_exists_always(id) == TRUE

struct_file_exists(id) == relaxed[id].has_file

\* The body of the loop of extract_unique_structures for one structure id
extract_step(id, es, sgs, dups) ==
    IF ~struct_file_exists(id)
    THEN [energies |-> es, space_groups |-> sgs, dups |-> dups, analysed |-> FALSE]
    ELSE LET found == find_same_structure(id, es, sgs)
         IN  IF found.sid = -1
             THEN [energies |-> es, space_groups |-> sgs, dups |-> dups,
                   analysed |-> TRUE]
             ELSE [energies |-> Append(es, found.energy),
                   space_groups |-> Append(sgs, found.space_group),
                   dups |-> Append([dups EXCEPT ![found.sid + 1] = Append(@, id)],
                                   <<id>>),
                   analysed |-> TRUE]

\* indices.sort(key=lambda i: energies[i]): list.sort is stable, so index j
\* goes behind the indices of smaller energy and the earlier indices of
\* equal energy
SortedIndices(es) ==
    LET n == Len(es)
        pos(j) == 1 + Cardinality({m \in 1..n : es[m] < es[j]})
                    + Cardinality({m \in 1..n : m < j /\ es[m] = es[j]})
    IN  [p \in 1..n |-> CHOOSE j \in 1..n : pos(j) = p]

\* Sorting the energies alone
sort_records_energies_only(es, sgs, dups) ==
    LET indices == SortedIndices(es)
    IN  [energies |-> [p \in 1..Len(es) |-> es[indices[p]]],
         space_groups |-> sgs,
         dups |-> dups]

\* analyze_duplicate_structures, "Sort objects in terms of energy"
sort_records(es, sgs, dups) ==
    LET indices == SortedIndices(es)
    IN  [energies |-> [p \in 1..Len(es) |-> es[indices[p]]],
         space_groups |-> [p \in 1..Len(es) |-> sgs[indices[p]]],
         dups |-> [p \in 1..Len(es) |-> dups[indices[p]]]]

NoRecords == [energies |-> <<>>, space_groups |-> <<>>, dups |-> <<>>]

DdpInit ==
    /\ dpc = "scan"
    /\ structure_ids = [j \in 1..MaxIds |-> j]
    /\ relaxed \in [1..MaxIds -> [has_file : BOOLEAN, energy : EnergyValues,
                                  space_group : SpaceGroupLabels]]
    /\ k = 0
    /\ energies = <<>>
    /\ space_groups = <<>>
    /\ duplicate_structure_ids = <<>>
    /\ analysed = <<>>
    /\ unsorted = NoRecords

\* One pass of the loop of extract_unique_structures
ScanOne ==
    /\ dpc = "scan"
    /\ k < Len(structure_ids)
    /\ LET id == structure_ids[k + 1]
           r == extract_step(id, energies, space_groups, duplicate_structure_ids)
       IN  /\ energies' = r.energies
           /\ space_groups' = r.space_groups
           /\ duplicate_structure_ids' = r.dups
           /\ analysed' = IF r.analysed THEN Append(analysed, id) ELSE analysed
    /\ k' = k + 1
    /\ UNCHANGED <<dpc, structure_ids, relaxed, unsorted>>

\* extract_unique_structures returns; analyze_duplicate_structures sorts
SortRecords ==
    /\ dpc = "scan"
    /\ k = Len(structure_ids)
    /\ LET r == sort_records(energies, space_groups, duplicate_structure_ids)
       IN  /\ energies' = r.energies
           /\ space_groups' = r.space_groups
           /\ duplicate_structure_ids' = r.dups
    /\ unsorted' = [energies |-> energies, space_groups |-> space_groups,
                    dups |-> duplicate_structure_ids]
    /\ dpc' = "sorted"
    /\ UNCHANGED <<structure_ids, relaxed, k, analysed>>

DdpNext ==
    \/ ScanOne /\ UNCHANGED <<ctl_vars, cls_vars, smp_vars, fun_vars, dia_vars, dir_vars>>
    \/ SortRecords /\ UNCHANGED <<ctl_vars, cls_vars, smp_vars, fun_vars, dia_vars, dir_vars>>

DedupInit == CtlIdle /\ ClsIdle /\ SmpIdle /\ DdpInit /\ FunIdle /\ DiaIdle /\ DirIdle

SpecDedup == DedupInit /\ [][DdpNext]_vars

(***************************************************************************)
(* The sorting step of analyze_duplicate_structures as a function of the   *)
(* three lists extract_unique_structures returns: up to MaxRecords records *)
(* of one or two member ids, record j opened by id j, no record matching   *)
(* an earlier one.                                                         *)
(***************************************************************************)
RecordLists ==
    UNION { { [energies |-> es, space_groups |-> sgs,
               dups |-> [j \in 1..n |-> IF two[j] THEN <<j, j + MaxRecords>> ELSE <<j>>]] :
                es \in [1..n -> EnergyValues],
                sgs \in [1..n -> SpaceGroupLabels],
                two \in [1..n -> BOOLEAN] }
          : n \in 0..MaxRecords }

Distinct(r) ==
    \A a, b \in 1..Len(r.energies) :
        a < b => ~(/\ Abs(r.energies[a] - r.energies[b]) <= ENERGY_TOL
                   /\ r.space_groups[a] = r.space_groups[b])

SortInit ==
    /\ dpc = "scan"
    /\ structure_ids = <<>>
    /\ relaxed = <<>>
    /\ k = 0
    /\ \E r \in {x \in RecordLists : Distinct(x)} :
        /\ energies = r.energies
        /\ space_groups = r.space_groups
        /\ duplicate_structure_ids = r.dups
    /\ analysed = <<>>
    /\ unsorted = NoRecords

SorterInit == CtlIdle /\ ClsIdle /\ SmpIdle /\ SortInit /\ FunIdle /\ DiaIdle /\ DirIdle

SortNext == SortRecords /\ UNCHANGED <<ctl_vars, cls_vars, smp_vars, fun_vars, dia_vars, dir_vars>>

SpecSort == SorterInit /\ [][SortNext]_vars

(***************************************************************************)
(* NiggliCellSampler: create_niggli_cell (struct.py) as a function of      *)
(* g_max and g_min, in units in which both are integers.  Each pass of its *)
(* loop is one step.                                                       *)
(***************************************************************************)
GMaxValues == {1, 2, 5, 8}

NiggliInit ==
    /\ fn = "create_niggli_cell"
    /\ fn_in \in {a \in [g_max : GMaxValues, g_min : 0..8] : a.g_min <= a.g_max}
    /\ fn_out = <<>>

\* A pass of the loop whose draw fails the condition: the loop goes round
NiggliRedraw ==
    /\ fn = "create_niggli_cell"
    /\ fn_out = <<>>
    /\ NiggliDraws(fn_in.g_max, fn_in.g_min)
            \ create_niggli_cell(fn_in.g_max, fn_in.g_min) # {}
    /\ fn' = "create_niggli_cell (redrawing)"
    /\ UNCHANGED <<fn_in, fn_out>>

\* A pass of the loop whose draw meets the condition: break and return
NiggliReturn ==
    /\ fn \in {"create_niggli_cell", "create_niggli_cell (redrawing)"}
    /\ fn_out = <<>>
    /\ fn_out' \in create_niggli_cell(fn_in.g_max, fn_in.g_min)
    /\ UNCHANGED <<fn, fn_in>>

NiggliNext ==
    \/ NiggliRedraw /\ UNCHANGED <<ctl_vars, cls_vars, smp_vars, ddp_vars, dia_vars, dir_vars>>
    \/ NiggliReturn /\ UNCHANGED <<ctl_vars, cls_vars, smp_vars, ddp_vars, dia_vars, dir_vars>>

NiggliSamplerInit ==
    CtlIdle /\ ClsIdle /\ SmpIdle /\ DdpIdle /\ NiggliInit /\ DiaIdle /\ DirIdle

SpecNiggli == NiggliSamplerInit /\ [][NiggliNext]_vars

(***************************************************************************)
(* LatticeTransform (struct.py): the conversion between lattice constants  *)
(* and Niggli cells in double precision.                                   *)
(*                                                                         *)
(* Lengths are integers.  An angle is <<deg, nano>>: deg degrees plus nano *)
(* times 1e-9 degrees, and is either one whose cosine is a double (60, 90, *)
(* 120 degrees) or an angle next to 0.  A cosine is <<c2, ulps>>: the      *)
(* double c2 / 2 - ulps * 2^-53, 2^-53 being the spacing of the doubles    *)
(* below 1; the cosine of a small angle is 1 - angle^2 / 2 rounded to the  *)
(* nearest double.  g4, g5 and g6 are <<l * m * c2, ulps>> for the lengths *)
(* l and m of the two axes, i.e. the product of l, m and the cosine, its   *)
(* first part kept times 2.                                                *)
(***************************************************************************)
Lengths == {1, 2, 5, 6, 9}
ExactAngles == {<<60, 0>>, <<90, 0>>, <<120, 0>>}
SmallAngles == {<<0, 1000>>, <<0, 10000>>, <<0, 40000>>}

\* (1e-9 degrees)^2 / 2 in radians^2, in units of 2^-53, is 1 / 728900
NANO2_PER_ULP == 728900
MAX_SQRT == 46340

\* math.cos(math.radians(angle)), rounded to a double
Cos(angle) ==
    IF angle[2] = 0
    THEN <<CASE angle[1] = 60 -> 1 [] angle[1] = 90 -> 0 [] angle[1] = 120 -> -1, 0>>
    ELSE <<2, (angle[2] * angle[2] + NANO2_PER_ULP \div 2) \div NANO2_PER_ULP>>

\* Newton's iteration for the integer part of a square root
RECURSIVE SqrtFrom(_, _)
SqrtFrom(x, r) == IF r * r <= x THEN r ELSE SqrtFrom(x, (r + x \div r) \div 2)

\* sqrt, rounded to the nearest integer
Sqrt(x) ==
    LET r == SqrtFrom(x, MAX_SQRT)
    IN  IF x - r * r <= r THEN r ELSE r + 1

\* degrees(acos(val)) of the double val
DegreesACos(val) ==
    IF val[2] = 0
    THEN <<CASE val[1] = 2 -> 0 [] val[1] = 1 -> 60 [] val[1] = 0 -> 90
             [] val[1] = -1 -> 120 [] val[1] = -2 -> 180, 0>>
    ELSE <<0, Sqrt(val[2] * NANO2_PER_ULP)>>

\* convert_lattice_constants_to_niggli_cell
convert_lattice_constants_to_niggli_cell(l) ==
    LET inner(x, y, angle) == <<x * y * Cos(angle)[1], Cos(angle)[2]>>
    IN  <<l[1] * l[1], l[2] * l[2], l[3] * l[3],
          inner(l[1], l[2], l[6]), inner(l[3], l[1], l[5]), inner(l[2], l[3], l[4])>>

\* A clamp that answers 0 for a ratio below -1 and 180 for one above 1
calc_angle_from_inner_product_clamp_inverted(a, b, val) ==
    LET q == <<val[1] \div (a * b), val[2]>>
    IN  IF Abs(q[1]) > 2 \/ (q[1] = -2 /\ q[2] > 0) \/ (q[1] = 2 /\ q[2] < 0)
        THEN (IF q[1] < 0 THEN <<0, 0>> ELSE <<180, 0>>)
        ELSE DegreesACos(q)

\* _calc_angle_from_inner_product
calc_angle_from_inner_product(a, b, val) ==
    LET q == <<val[1] \div (a * b), val[2]>>
    IN  IF Abs(q[1]) > 2 \/ (q[1] = -2 /\ q[2] > 0) \/ (q[1] = 2 /\ q[2] < 0)
        THEN (IF q[1] < 0 THEN <<180, 0>> ELSE <<0, 0>>)
        ELSE DegreesACos(q)

\* A conversion that takes alpha from g5 and beta from g6
convert_niggli_cell_to_lattice_constants_swapped(cell) ==
    LET a == Sqrt(cell[1])
        b == Sqrt(cell[2])
        c == Sqrt(cell[3])
    IN  <<a, b, c, calc_angle_from_inner_product(b, c, cell[5]),
          calc_angle_from_inner_product(c, a, cell[6]),
          calc_angle_from_inner_product(a, b, cell[4])>>

\* convert_niggli_cell_to_lattice_constants
convert_niggli_cell_to_lattice_constants(cell) ==
    LET a == Sqrt(cell[1])
        b == Sqrt(cell[2])
        c == Sqrt(cell[3])
        gamma == calc_angle_from_inner_product(a, b, cell[4])
        beta == calc_angle_from_inner_product(c, a, cell[5])
        alpha == calc_angle_from_inner_product(b, c, cell[6])
    IN  <<a, b, c, alpha, beta, gamma>>

LatticeInit ==
    /\ fn = "to niggli"
    /\ \E a, b, c \in Lengths, alpha, beta, gamma \in ExactAngles \cup SmallAngles :
        fn_in = <<a, b, c, alpha, beta, gamma>>
    /\ fn_out = <<>>

\* The lattice constants are converted to a cell ...
ToNiggliCell ==
    /\ fn = "to niggli"
    /\ fn_out' = [niggli |-> convert_lattice_constants_to_niggli_cell(fn_in),
                  lattice |-> <<>>]
    /\ fn' = "to lattice constants"
    /\ UNCHANGED fn_in

\* ... and the cell back to lattice constants
ToLatticeConstants ==
    /\ fn = "to lattice constants"
    /\ fn_out' = [fn_out EXCEPT
                    !.lattice = convert_niggli_cell_to_lattice_constants(fn_out.niggli)]
    /\ fn' = "round trip done"
    /\ UNCHANGED fn_in

LatticeNext ==
    \/ ToNiggliCell /\ UNCHANGED <<ctl_vars, cls_vars, smp_vars, ddp_vars, dia_vars, dir_vars>>
    \/ ToLatticeConstants /\ UNCHANGED <<ctl_vars, cls_vars, smp_vars, ddp_vars, dia_vars, dir_vars>>

LatticeTransformInit ==
    CtlIdle /\ ClsIdle /\ SmpIdle /\ DdpIdle /\ LatticeInit /\ DiaIdle /\ DirIdle

SpecLattice == LatticeTransformInit /\ [][LatticeNext]_vars

(***************************************************************************)
(* InputFileWriter (fileio.py): the structure file and the command file as *)
(* functions of the composition.  A file is the list of what its lines     *)
(* say; numbers that are only formatted are left out.                      *)
(***************************************************************************)
MaxCount == 3
ElementNames == <<"Ti", "Al", "Cu">>

RECURSIVE SumSeq(_)
SumSeq(q) == IF q = <<>> THEN 0 ELSE Head(q) + SumSeq(Tail(q))

\* [x for _ in range(n)]
RECURSIVE Repeat(_, _)
Repeat(x, n) == IF n <= 0 THEN <<>> ELSE <<x>> \o Repeat(x, n - 1)

\* [f(j) for j in 1..n for _ in range(counts[j])]
RECURSIVE Blocks(_, _)
Blocks(counts, j) ==
    IF j > Len(counts) THEN <<>>
    ELSE Repeat(j, counts[j]) \o Blocks(counts, j + 1)

\* The positions of zip(elements, n_atom_for_each_element) with n_atom != 0
Present(elements, counts) ==
    SelectSeq([j \in 1..(IF Len(elements) < Len(counts) THEN Len(elements)
                         ELSE Len(counts)) |-> j],
              LAMBDA j : counts[j] # 0)

\* A writer that keeps the elements without atoms
remove_absent_elements_keep_all(elements, counts) ==
    [elements |-> elements, counts |-> counts]

\* "Remove elements which don't exist"
remove_absent_elements(elements, counts) ==
    [elements |-> [p \in 1..Len(Present(elements, counts)) |->
                        elements[Present(elements, counts)[p]]],
     counts |-> SelectSeq(counts, LAMBDA n : n # 0)]

\* create_lammps_struct_file; n_rows is frac_coords.shape[0]
create_lammps_struct_file(n_rows, elements, n_atom_for_each_element) ==
    LET kept == remove_absent_elements(elements, n_atom_for_each_element)
        types == Blocks(kept.counts, 1)
        n_lines == IF Len(types) < n_rows THEN Len(types) ELSE n_rows
    IN  [n_atom |-> n_rows,
         n_type |-> Len(kept.counts),
         masses |-> [t \in 1..Len(kept.elements) |-> <<t, kept.elements[t]>>],
         atoms |-> [a \in 1..n_lines |-> <<a, types[a]>>]]

Compositions ==
    UNION { { [elements |-> SubSeq(ElementNames, 1, m), counts |-> c] :
                c \in [1..m -> 0..MaxCount] } : m \in 1..Len(ElementNames) }

StructFileInit ==
    /\ fn = "create_lammps_struct_file"
    /\ fn_in \in Compositions
    /\ fn_out = <<>>

\* create_lammps_struct_file is called with one row of coordinates per atom
WriteStructFile ==
    /\ fn = "create_lammps_struct_file"
    /\ fn_out = <<>>
    /\ fn_out' = <<create_lammps_struct_file(SumSeq(fn_in.counts), fn_in.elements,
                                             fn_in.counts)>>
    /\ UNCHANGED <<fn, fn_in>>

StructFileNext ==
    WriteStructFile /\ UNCHANGED <<ctl_vars, cls_vars, smp_vars, ddp_vars, dia_vars, dir_vars>>

StructFileWriterInit ==
    CtlIdle /\ ClsIdle /\ SmpIdle /\ DdpIdle /\ StructFileInit /\ DiaIdle /\ DirIdle

SpecStructFile == StructFileWriterInit /\ [][StructFileNext]_vars

\* The compositions of two elements the command file is written for
CommandCompositions ==
    { [elements |-> <<"Ti", "Al">>, counts |-> <<n1, n2>>, relaxation_id |-> rid] :
        n1 \in 0..7, n2 \in 0..7, rid \in Rids }

\* A writer that takes the one-step schedule for 10 atoms too
has_few_atoms_inclusive(n_atom) == n_atom <= 10

\* if n_atom < 10
has_few_atoms(n_atom) == n_atom < 10

\* create_lammps_command_file: the lines of the file, a line being the list
\* of its words (the numeric settings left out), <<>> an empty line and
\* <<"#">> a comment
create_lammps_command_file(elements, n_atom_for_each_element, relaxation_id) ==
    LET elements_str == remove_absent_elements(elements, n_atom_for_each_element).elements
        lines ==
            << <<"units", "metal">>, <<"box", "tilt", "large">>,
               <<"atom_style", "atomic">>, <<>>,
               <<"boundary", "p", "p", "p">>,
               <<"read_data", "initial_structure_", relaxation_id>>, <<>>,
               <<"pair_style", "polymlp">>,
               <<"pair_coeff", "*", "*", "mlp.lammps">> \o elements_str, <<>>,
               <<"#">>, <<"thermo", "1">>, <<"thermo_style", "custom">>,
               <<"thermo_modify", "norm", "no">>, <<>>,
               <<"#">>, <<"neigh_modify">>, <<>> >>
        n_atom == SumSeq(n_atom_for_each_element)
        relaxation_section ==
            IF has_few_atoms(n_atom)
            THEN << <<"#">>, <<"fix", "ftri", "all", "box/relax", "tri">>,
                    <<"minimize">>, <<>> >>
            ELSE << <<"#">>, <<"minimize">>, <<"reset_timestep", "0">>, <<>>,
                    <<"#">>, <<"fix", "fiso", "all", "box/relax", "iso">>,
                    <<"minimize">>, <<"unfix", "fiso">>, <<"reset_timestep", "0">>, <<>>,
                    <<"#">>, <<"fix", "faniso", "all", "box/relax", "aniso">>,
                    <<"minimize">>, <<"unfix", "faniso">>, <<"reset_timestep", "0">>, <<>>,
                    <<"#">>, <<"fix", "ftri", "all", "box/relax", "tri">>,
                    <<"minimize">>, <<"unfix", "ftri">>, <<"reset_timestep", "0">>, <<>> >>
        save_section ==
            << <<"#">>, <<"write_data", "final_structure_", relaxation_id>>, <<>> >>
    IN  lines \o relaxation_section \o save_section

CommandFileInit ==
    /\ fn = "create_lammps_command_file"
    /\ fn_in \in CommandCompositions
    /\ fn_out = <<>>

WriteCommandFile ==
    /\ fn = "create_lammps_command_file"
    /\ fn_out = <<>>
    /\ fn_out' = create_lammps_command_file(fn_in.elements, fn_in.counts,
                                            fn_in.relaxation_id)
    /\ UNCHANGED <<fn, fn_in>>

CommandFileNext ==
    WriteCommandFile /\ UNCHANGED <<ctl_vars, cls_vars, smp_vars, ddp_vars, dia_vars, dir_vars>>

CommandFileWriterInit ==
    CtlIdle /\ ClsIdle /\ SmpIdle /\ DdpIdle /\ CommandFileInit /\ DiaIdle /\ DirIdle

SpecCommandFile == CommandFileWriterInit /\ [][CommandFileNext]_vars

(***************************************************************************)
(* DiatomicEnergySampler: _calc_diatom_energy (bin.py).  A temporary file  *)
(* is "open" from NamedTemporaryFile(...) until its close(), which deletes *)
(* it.  Every statement that can raise does so or not.                     *)
(***************************************************************************)
DiatomDistances == {1, 2, 3, 4}
DiatomCompositions == {<<0, 2>>, <<1, 1>>, <<2, 0>>}

DiaInit ==
    /\ dia_pc = "start"
    /\ struct_file_object = NoTempFile
    /\ command_file_object = NoTempFile
    /\ fn = "_calc_diatom_energy"
    /\ fn_in \in [d : DiatomDistances, elements : {<<"Ti", "Al">>},
                  n_atom_for_each_element : DiatomCompositions]
    /\ fn_out = <<>>

\* An exception leaves _calc_diatom_energy
DiaRaise ==
    /\ dia_pc' = "raised"
    /\ fn_out' = <<"exception">>

\* struct_file_object = NamedTemporaryFile(mode="w")
DiaCreateStructFile ==
    /\ dia_pc = "start"
    /\ \/ /\ struct_file_object' = [state |-> "open", content |-> <<>>]
          /\ dia_pc' = "struct file created"
          /\ UNCHANGED fn_out
       \/ DiaRaise /\ UNCHANGED struct_file_object
    /\ UNCHANGED <<command_file_object, fn, fn_in>>

\* content = create_lammps_struct_file(...); write; seek
DiaFillStructFile ==
    /\ dia_pc = "struct file created"
    /\ \/ /\ struct_file_object' =
                [struct_file_object EXCEPT
                    !.content = <<create_lammps_struct_file(
                                    2, fn_in.elements, fn_in.n_atom_for_each_element)>>]
          /\ dia_pc' = "struct file written"
          /\ UNCHANGED fn_out
       \/ DiaRaise /\ UNCHANGED struct_file_object
    /\ UNCHANGED <<command_file_object, fn, fn_in>>

\* command_file_object = NamedTemporaryFile(mode="w")
DiaCreateCommandFile ==
    /\ dia_pc = "struct file written"
    /\ \/ /\ command_file_object' = [state |-> "open", content |-> <<>>]
          /\ dia_pc' = "command file created"
          /\ UNCHANGED fn_out
       \/ DiaRaise /\ UNCHANGED command_file_object
    /\ UNCHANGED <<struct_file_object, fn, fn_in>>

\* content = create_static_lammps_command_file(...); write; seek
DiaFillCommandFile ==
    /\ dia_pc = "command file created"
    /\ \/ /\ command_file_object' =
                [command_file_object EXCEPT
                    !.content = <<"read_data", "struct_file_object.name">>]
          /\ dia_pc' = "command file written"
          /\ UNCHANGED fn_out
       \/ DiaRaise /\ UNCHANGED command_file_object
    /\ UNCHANGED <<struct_file_object, fn, fn_in>>

\* calc_stats = run_lammps(command_file_object.name, save_log=False):
\* run_lammps returns the energies, or only the default energy after it has
\* caught an exception, or raises what it does not catch
DiaRunLammps ==
    /\ dia_pc = "command file written"
    /\ \/ /\ \E keys \in {{"energy"}, {"energy", "energy_per_atom"}} :
                fn_out' = <<"calc_stats", keys>>
          /\ dia_pc' = "ran"
       \/ DiaRaise
    /\ UNCHANGED <<struct_file_object, command_file_object, fn, fn_in>>

\* command_file_object.close(); struct_file_object.close()
DiaCloseFiles ==
    /\ dia_pc = "ran"
    /\ command_file_object' = [command_file_object EXCEPT !.state = "closed"]
    /\ struct_file_object' = [struct_file_object EXCEPT !.state = "closed"]
    /\ dia_pc' = "closed"
    /\ UNCHANGED <<fn, fn_in, fn_out>>

\* return calc_stats["energy_per_atom"]
DiaReturn ==
    /\ dia_pc = "closed"
    /\ IF "energy_per_atom" \in fn_out[2]
       THEN dia_pc' = "returned" /\ fn_out' = <<"energy_per_atom">>
       ELSE DiaRaise
    /\ UNCHANGED <<struct_file_object, command_file_object, fn, fn_in>>

DiaNext ==
    \/ DiaCreateStructFile /\ UNCHANGED <<ctl_vars, cls_vars, smp_vars, ddp_vars, dir_vars>>
    \/ DiaFillStructFile /\ UNCHANGED <<ctl_vars, cls_vars, smp_vars, ddp_vars, dir_vars>>
    \/ DiaCreateCommandFile /\ UNCHANGED <<ctl_vars, cls_vars, smp_vars, ddp_vars, dir_vars>>
    \/ DiaFillCommandFile /\ UNCHANGED <<ctl_vars, cls_vars, smp_vars, ddp_vars, dir_vars>>
    \/ DiaRunLammps /\ UNCHANGED <<ctl_vars, cls_vars, smp_vars, ddp_vars, dir_vars>>
    \/ DiaCloseFiles /\ UNCHANGED <<ctl_vars, cls_vars, smp_vars, ddp_vars, dir_vars>>
    \/ DiaReturn /\ UNCHANGED <<ctl_vars, cls_vars, smp_vars, ddp_vars, dir_vars>>

DiatomInit == CtlIdle /\ ClsIdle /\ SmpIdle /\ DdpIdle /\ DiaInit /\ DirIdle

SpecDiatom == DiatomInit /\ [][DiaNext]_vars

(***************************************************************************)
(* Directory ids: calc_begin_id_of_dir (utils.py) and the creation of the  *)
(* directory of the id (bin.py).  A name is a sequence of characters; an   *)
(* entry of the root directory has a name and is a directory or a file.    *)
(***************************************************************************)
N_DIGIT == 2
MaxAllocations == 3
DigitChars == <<"0", "1", "2", "3", "4", "5", "6", "7", "8", "9">>

IsDigit(ch) == \E v \in 1..10 : DigitChars[v] = ch
DigitValue(ch) == (CHOOSE v \in 1..10 : DigitChars[v] = ch) - 1

\* re.search(rf".*\/\d{{{n_digit}}}", str(p)): a "/" followed by n_digit
\* digits; the path of the root directory itself holds no such component
matches_id_pattern(name, n_digit) ==
    Len(name) >= n_digit /\ \A j \in 1..n_digit : IsDigit(name[j])

\* int(p.name): the number, or -1 for a ValueError
RECURSIVE IntOf(_)
IntOf(name) ==
    IF name = <<>> THEN 0
    ELSE LET front == IntOf(SubSeq(name, 1, Len(name) - 1))
             last == name[Len(name)]
         IN  IF front = -1 \/ ~IsDigit(last) THEN -1
             ELSE 10 * front + DigitValue(last)

\* str(id)
RECURSIVE Str(_)
Str(id) == IF id < 10 THEN <<DigitChars[id + 1]>>
           ELSE Str(id \div 10) \o <<DigitChars[(id % 10) + 1]>>

\* str(id).zfill(n_digit)
RECURSIVE ZFill(_, _)
ZFill(name, n_digit) ==
    IF Len(name) >= n_digit THEN name ELSE ZFill(<<"0">> \o name, n_digit)

MaxOf(set) == CHOOSE x \in set : \A y \in set : y <= x

\* calc_begin_id_of_dir: the begin id, or -1 when int() raises ValueError
calc_begin_id_of_dir(entries, n_digit) ==
    LET existing_ids == {IntOf(p.name) :
                            p \in {q \in entries :
                                    q.is_dir /\ matches_id_pattern(q.name, n_digit)}}
    IN  IF -1 \in existing_ids THEN -1
        ELSE IF existing_ids = {} THEN 1
        ELSE MaxOf(existing_ids) + 1

\* What the root directory may hold before the first id is taken
InitialEntries ==
    { [name |-> <<"0", "5">>, is_dir |-> TRUE],
      [name |-> <<"9", "9">>, is_dir |-> TRUE],
      [name |-> <<"0", "7">>, is_dir |-> FALSE],
      [name |-> <<"l", "o", "g">>, is_dir |-> TRUE],
      [name |-> <<"0", "0", "7">>, is_dir |-> TRUE],
      [name |-> <<"0", "1", "_", "o", "l", "d">>, is_dir |-> TRUE] }

DirInit ==
    /\ children \in SUBSET InitialEntries
    /\ begin_ids = <<>>

\* begin_oid = calc_begin_id_of_dir(structure_dir_path, n_digit=2) and, when
\* it returns, the creation of the directory str(begin_oid).zfill(2)
AllocateId ==
    /\ Len(begin_ids) < MaxAllocations
    /\ (begin_ids # <<>> => begin_ids[Len(begin_ids)].id # -1)
    /\ LET begin_id == calc_begin_id_of_dir(children, N_DIGIT)
       IN  /\ begin_ids' = Append(begin_ids, [before |-> children, id |-> begin_id])
           /\ children' = IF begin_id = -1 THEN children
                          ELSE children \cup {[name |-> ZFill(Str(begin_id), N_DIGIT),
                                               is_dir |-> TRUE]}

DirNext ==
    AllocateId /\ UNCHANGED <<ctl_vars, cls_vars, smp_vars, ddp_vars, fun_vars, dia_vars>>

DirectoryInit == CtlIdle /\ ClsIdle /\ SmpIdle /\ DdpIdle /\ FunIdle /\ DiaIdle /\ DirInit

SpecDirIds == DirectoryInit /\ [][DirNext]_vars

(***************************************************************************)
(* DistanceTest: has_enough_space_between_atoms as a function of the       *)
(* elements, the atom counts and the minimum periodic distance             *)
(***************************************************************************)
\* ATOM_INFO[e]["distance"] in units of 0.001 angstrom
ATOM_INFO ==
    [e \in {"Al", "Ba", "Be", "Cu"} |->
        CASE e = "Al" -> 2860
          [] e = "Ba" -> 4350
          [] e = "Be" -> 2200
          [] e = "Cu" -> 2570]

\* load_atom_info(): the table of the data module
load_atom_info == ATOM_INFO

\* max(atom_info[e]["distance"] for e in elements)
largest_distance(elements) ==
    MaxOf({ load_atom_info[elements[j]] : j \in 1..Len(elements) })

\* min_distance = 100000, lowered to the smallest entry of the distance
\* matrix above the diagonal, in units of 0.001 angstrom
NO_PAIR_DISTANCE == 100000000

min_distance_of(n_atom, smallest_pair_distance) ==
    IF n_atom < 2 THEN NO_PAIR_DISTANCE ELSE smallest_pair_distance

\* The smallest distances between two atoms the structures are drawn with
PairDistances == {0, 1650, 2100, 2500, 3000, 3263, 5000}

Seq2(S) == { <<x, y>> : x \in S, y \in S }

SpacingInputs ==
    { [elements |-> el, counts |-> c, smallest |-> q] :
        el \in { p \in Seq2(DOMAIN ATOM_INFO) : p[1] # p[2] },
        c \in [1..2 -> 0..MaxCount], q \in PairDistances }

SpacingInit ==
    /\ fn = "has_enough_space_between_atoms"
    /\ fn_in \in SpacingInputs
    /\ fn_out = <<>>

\* return min_distance >= 0.75 * d
CheckSpacing ==
    /\ fn = "has_enough_space_between_atoms"
    /\ fn_out = <<>>
    /\ fn_out' = <<has_enough_space_between_atoms(
                     4 * min_distance_of(SumSeq(fn_in.counts), fn_in.smallest),
                     3 * largest_distance(fn_in.elements))>>
    /\ UNCHANGED <<fn, fn_in>>

SpacingNext ==
    CheckSpacing /\ UNCHANGED <<ctl_vars, cls_vars, smp_vars, ddp_vars, dia_vars, dir_vars>>

DistanceTestInit ==
    CtlIdle /\ ClsIdle /\ SmpIdle /\ DdpIdle /\ SpacingInit /\ DiaIdle /\ DirIdle

SpecSpacing == DistanceTestInit /\ [][SpacingNext]_vars

(***************************************************************************)
(* SystemParameters: convert_niggli_cell_to_system_params (struct.py) on   *)
(* the cells create_niggli_cell returns.  The square roots are not taken:  *)
(* the result holds the exception raised, if any, and the squares          *)
(* xhi^2 = g1, yhi^2 * g1 = g1 g2 - g4^2 and zhi^2 * (g1 g2 - g4^2), the   *)
(* Gram determinant of the cell.                                           *)
(***************************************************************************)
convert_niggli_cell_to_system_params(cell) ==
    LET g1 == cell[1]
        yhi2 == cell[1] * cell[2] - cell[4] * cell[4]
        zhi2 == VolumeSquared(cell)
        raised ==
            IF g1 < 0 THEN "ValueError"                 \* sqrt(niggli[0])
            ELSE IF g1 = 0 THEN "ZeroDivisionError"     \* niggli[3] / a
            ELSE IF yhi2 < 0 THEN "ValueError"          \* sqrt(cell[1] - xy ** 2)
            ELSE IF yhi2 = 0 THEN "ZeroDivisionError"   \* (...) / params["yhi"]
            ELSE IF zhi2 < 0 THEN "ValueError"          \* sqrt(cell[2] - ...)
            ELSE ""
    IN  [raised |-> raised, xhi2 |-> g1, yhi2 |-> yhi2, zhi2 |-> zhi2]

SystemParamsInit ==
    /\ fn = "convert_niggli_cell_to_system_params"
    /\ fn_in \in UNION { { [g_max |-> a.g_max, g_min |-> a.g_min, niggli |-> c] :
                              c \in create_niggli_cell(a.g_max, a.g_min) } :
                         a \in {b \in [g_max : GMaxValues, g_min : 0..8] :
                                    b.g_min <= b.g_max} }
    /\ fn_out = <<>>

ConvertToSystemParams ==
    /\ fn = "convert_niggli_cell_to_system_params"
    /\ fn_out = <<>>
    /\ fn_out' = <<convert_niggli_cell_to_system_params(fn_in.niggli)>>
    /\ UNCHANGED <<fn, fn_in>>

SystemParamsNext ==
    ConvertToSystemParams
        /\ UNCHANGED <<ctl_vars, cls_vars, smp_vars, ddp_vars, dia_vars, dir_vars>>

SystemParametersInit ==
    CtlIdle /\ ClsIdle /\ SmpIdle /\ DdpIdle /\ SystemParamsInit /\ DiaIdle /\ DirIdle

SpecSystemParams == SystemParametersInit /\ [][SystemParamsNext]_vars

(***************************************************************************)
(* AngleFromInnerProduct: convert_niggli_cell_to_lattice_constants on      *)
(* cells given directly, the ratios val / (a * b) running from -1.5 to 1.5 *)
(* with the doubles next to -1 and 1 among them.                           *)
(***************************************************************************)
AxisLengths == {1, 2, 9}

\* val / (a * b) as <<c2, ulps>>: -1.5, -1 - 2^-53, -1, -0.5, 0, 0.5,
\* 1 - 2^-53, 1, 1 + 2^-53, 1.5
Ratios ==
    {<<-3, 0>>, <<-2, 1>>, <<-2, 0>>, <<-1, 0>>, <<0, 0>>, <<1, 0>>,
     <<2, 1>>, <<2, 0>>, <<2, -1>>, <<3, 0>>}

\* The cell of the axes a, b, c whose inner products have the ratios r
CellOf(a, b, c, r) ==
    <<a * a, b * b, c * c,
      <<a * b * r[1][1], r[1][2]>>, <<c * a * r[2][1], r[2][2]>>,
      <<b * c * r[3][1], r[3][2]>> >>

AngleInit ==
    /\ fn = "convert_niggli_cell_to_lattice_constants"
    /\ \E a, b, c \in AxisLengths, r4, r5, r6 \in Ratios :
        fn_in = [niggli |-> CellOf(a, b, c, <<r4, r5, r6>>),
                 ratios |-> <<r4, r5, r6>>]
    /\ fn_out = <<>>

ConvertToLatticeConstants ==
    /\ fn = "convert_niggli_cell_to_lattice_constants"
    /\ fn_out = <<>>
    /\ fn_out' = <<convert_niggli_cell_to_lattice_constants(fn_in.niggli)>>
    /\ UNCHANGED <<fn, fn_in>>

AngleNext ==
    ConvertToLatticeConstants
        /\ UNCHANGED <<ctl_vars, cls_vars, smp_vars, ddp_vars, dia_vars, dir_vars>>

AngleFromInnerProductInit ==
    CtlIdle /\ ClsIdle /\ SmpIdle /\ DdpIdle /\ AngleInit /\ DiaIdle /\ DirIdle

SpecAngle == AngleFromInnerProductInit /\ [][AngleNext]_vars

(***************************************************************************)
(* UniqueStructureWriter: analyze_duplicate_structures (bin.py) from the   *)
(* sort on, for the record lists of the sorter and a dft directory that    *)
(* holds directories of earlier calls.  Each pass of the loop that writes  *)
(* the records is one step; begin_ids holds, for each pass, the entries of *)
(* the dft directory before it, the id calc_begin_id_of_dir returned, the  *)
(* id of the directory made and what was written into it.  A dft directory *)
(* that does not exist is made empty before the loop.  The empty string    *)
(* appended to the member ids of a record is the id 0.                     *)
(***************************************************************************)
DFT_N_DIGIT == 5

\* What the dft directory may hold before the call
DftEntries ==
    { [name |-> <<"0", "0", "0", "0", "1">>, is_dir |-> TRUE],
      [name |-> <<"0", "0", "0", "0", "2">>, is_dir |-> TRUE],
      [name |-> <<"0", "0", "0", "0", "4">>, is_dir |-> TRUE],
      [name |-> <<"0", "0", "0", "0", "9">>, is_dir |-> FALSE] }

WriterInit ==
    /\ SortInit
    /\ children \in SUBSET DftEntries
    /\ begin_ids = <<>>

\* One pass of "for i in range(n_structure)"
WriteUnique ==
    /\ dpc = "sorted"
    /\ Len(begin_ids) < Len(energies)
    /\ LET j == Len(begin_ids)
           begin_sid == calc_begin_id_of_dir(children, DFT_N_DIGIT)
           oid == begin_sid + j
           ids == Append(duplicate_structure_ids[j + 1], 0)
       IN  /\ children' = children \cup {[name |-> ZFill(Str(oid), DFT_N_DIGIT),
                                          is_dir |-> TRUE]}
           /\ duplicate_structure_ids' = [duplicate_structure_ids EXCEPT ![j + 1] = ids]
           /\ begin_ids' = Append(begin_ids,
                [before |-> children, id |-> begin_sid, dir |-> oid,
                 duplicate_structure_ids_txt |-> ids,
                 struct_info_json |-> [energy |-> energies[j + 1],
                                       space_group |-> space_groups[j + 1]],
                 POSCAR |-> ids[1]])
    /\ UNCHANGED <<dpc, structure_ids, relaxed, k, energies, space_groups,
                   analysed, unsorted>>

WriterNext ==
    \/ SortRecords /\ UNCHANGED <<ctl_vars, cls_vars, smp_vars, fun_vars, dia_vars, dir_vars>>
    \/ WriteUnique /\ UNCHANGED <<ctl_vars, cls_vars, smp_vars, fun_vars, dia_vars>>

UniqueStructureWriterInit ==
    CtlIdle /\ ClsIdle /\ SmpIdle /\ WriterInit /\ FunIdle /\ DiaIdle

SpecWriter == UniqueStructureWriterInit /\ [][WriterNext]_vars

\* The program keeps executing: every minimizer call returns or raises
LiveSpec == Init /\ [][Next]_vars /\ WF_vars(Next)

(***************************************************************************)
(* Claims about the relaxation controller                                  *)
(***************************************************************************)
IsStopDecision(status) == status = "stop" \/ ContainsSTOP(status)
Running == pc \in {"stage1", "refine", "stage2"}
Stage1Calls == SelectSeq(calls, LAMBDA c : c.rid = "01")
Stage2Calls == SelectSeq(calls, LAMBDA c : c.rid = "02")

\* C1: when the minimizer invocation of a cycle raises, run_lammps_as_one_cycle
\* does not raise, the traceback is in err.log, the cycle's status is a STOP
\* decision recorded in calc_stats.json, and relax_step_by_step returns
\* normally, so the batch goes on.
C1_MinimizerFailureIsIsolated ==
    \A j \in 1..Len(calls) :
        calls[j].minimizer_raised =>
            /\ calls[j].ended = "returned"
            /\ IsStopDecision(calls[j].status)
            /\ \E e \in 1..Len(err_log) : err_log[e] = "run_lammps"
            /\ calc_stats_json.exists
            /\ Len(calc_stats_json.result_status[calls[j].rid]) = calls[j].cid
            /\ calc_stats_json.result_status[calls[j].rid][calls[j].cid] = calls[j].status
            /\ pc # "raised"

\* C2: the refinement and a stage-2 cycle happen only if the last stage-1
\* cycle ended with the force-tolerance-satisfied status.
C2_Stage2OnlyAfterConverged ==
    (pc = "stage2" \/ Len(Stage2Calls) > 0) =>
        /\ Len(Stage1Calls) > 0
        /\ Stage1Calls[Len(Stage1Calls)].status = "CONVERGED"

\* C3: once check_previous_relaxation classified a cycle as a stop on
\* physical-plausibility grounds, no further minimizer cycle is invoked for
\* the structure: that cycle is the last one of the structure.
C3_StoppedIsTerminal ==
    \A j \in 1..Len(calls) : calls[j].physical_stop => j = Len(calls)

\* C4: in each stage the cycles are 01, 02, ... in order, no cycle follows a
\* cycle of the same stage whose status is not UNFINISHED, a stage has at most
\* max_iteration cycles, a structure at most 2 * max_iteration, and a running
\* relax_step_by_step eventually returns or raises.
C4_CyclesInOrder ==
    /\ Len(calls) <= 2 * max_iteration
    /\ \A j \in 1..Len(calls) :
        /\ calls[j].cid \in 1..max_iteration
        /\ j = 1 => calls[j].rid = "01" /\ calls[j].cid = 1
        /\ j > 1 =>
            \/ /\ calls[j].rid = calls[j - 1].rid
               /\ calls[j].cid = calls[j - 1].cid + 1
               /\ calls[j - 1].ended = "returned"
               /\ calls[j - 1].status = "UNFINISHED"
            \/ /\ calls[j - 1].rid = "01"
               /\ calls[j].rid = "02"
               /\ calls[j].cid = 1
    /\ (Len(calls) > 0 /\ calls[Len(calls)].status # "UNFINISHED") =>
            pc # "stage1" \/ calls[Len(calls)].rid # "01"
    /\ (Len(calls) > 0 /\ calls[Len(calls)].status # "UNFINISHED") =>
            pc # "stage2" \/ calls[Len(calls)].rid # "02"
    /\ pc = "stage1" => Len(calls) = i /\ i < max_iteration
    /\ pc = "stage2" => Len(Stage2Calls) = i /\ i < max_iteration

C4_CyclesBounded == []C4_CyclesInOrder /\ (Running ~> ~Running)

\* Both stages used all their cycles
C4_Witness == Len(calls) = 2 * max_iteration /\ pc = "returned"

(***************************************************************************)
(* Claims about the convergence classifier                                 *)
(***************************************************************************)

\* C9: with calc_stats["energy"] >= 1e08 or <= -1e03, check_previous_relaxation
\* returns the stop status whatever the log status, the volume and the
\* distances are; when it cannot return because the log or the structure
\* cannot be read, its caller records a STOP as well.
C9_EnergyOutOfBoundsStops ==
    (cls_out.done /\ (cls_in.energy >= 10000000 \/ cls_in.energy <= -100)) =>
        /\ ~cls_out.raised => cls_out.status = "stop"
        /\ cls_out.raised => cls_out.judged = "STOP: an error is raised"
        /\ cls_out.judged \in {"stop", "STOP: an error is raised"}

\* The energy is exactly 1e08, the log reports force tolerance satisfied and
\* the volume and distance checks pass: still a stop
C9_Witness ==
    /\ cls_out.done
    /\ cls_in.energy = 10000000
    /\ cls_in.log = "ftol"
    /\ cls_in.structure.volume = 2827 /\ cls_in.structure.d = 3
    /\ cls_in.structure.dmin = 10
    /\ cls_out.status = "stop"

C5_DistanceConstraintDroppedAfterCap ==
    n_atom_total >= 2 => n_too_close <= 1000

(***************************************************************************)
(* Claims about the structure deduplicator                                 *)
(***************************************************************************)
Scanned == {structure_ids[j] : j \in 1..k}
RecordsHolding(id) ==
    {r \in 1..Len(duplicate_structure_ids) :
        \E m \in 1..Len(duplicate_structure_ids[r]) :
            duplicate_structure_ids[r][m] = id}

\* C6: a scanned structure with a terminal structure file is a member of
\* exactly one record (the record it matched, or a new record of its own),
\* no record is empty, and there is one energy and one label per record.
C6_EachStructureInExactlyOneRecord ==
    /\ \A id \in Scanned :
        relaxed[id].has_file => Cardinality(RecordsHolding(id)) = 1
    /\ \A r \in 1..Len(duplicate_structure_ids) : duplicate_structure_ids[r] # <<>>
    /\ Len(energies) = Len(duplicate_structure_ids)
    /\ Len(space_groups) = Len(duplicate_structure_ids)

\* C7: after the sort the energies ascend, and position p of each of the
\* three lists holds what the record that was at one and the same position o
\* held before the sort, member list and its first member included; records
\* of equal energy keep their scan order.
Home(p) == duplicate_structure_ids[p][1]
C7_SortIsStableAndAligned ==
    dpc = "sorted" =>
        LET n == Len(unsorted.energies)
        IN  /\ Len(energies) = n /\ Len(space_groups) = n
            /\ Len(duplicate_structure_ids) = n
            /\ \A p \in 1..n :
                /\ Home(p) \in 1..n
                /\ energies[p] = unsorted.energies[Home(p)]
                /\ space_groups[p] = unsorted.space_groups[Home(p)]
                /\ duplicate_structure_ids[p] = unsorted.dups[Home(p)]
            /\ \A p, q \in 1..n :
                p < q => \/ energies[p] < energies[q]
                         \/ energies[p] = energies[q] /\ Home(p) < Home(q)

\* Sorted lists that were out of order, held two records of equal energy and
\* a record of two members
C7_Witness ==
    /\ dpc = "sorted"
    /\ \E a, b \in 1..Len(unsorted.energies) :
        a < b /\ unsorted.energies[a] > unsorted.energies[b]
    /\ \E a, b \in 1..Len(unsorted.energies) :
        a < b /\ unsorted.energies[a] = unsorted.energies[b]
    /\ \E a \in 1..Len(unsorted.dups) : Len(unsorted.dups[a]) = 2
    /\ energies # unsorted.energies

\* C8: a structure id without final_structure_02 is skipped: it is not handed
\* to find_same_structure (so it contributes no energy and no label), it is
\* in no member list, and the records are those the scan of the other ids
\* alone builds.
RECURSIVE ScanAll(_, _)
ScanAll(ids, recs) ==
    IF ids = <<>> THEN recs
    ELSE LET r == extract_step(Head(ids), recs.energies, recs.space_groups, recs.dups)
         IN  ScanAll(Tail(ids), [energies |-> r.energies,
                                 space_groups |-> r.space_groups, dups |-> r.dups])

C8_AbsentStructuresAreSkipped ==
    dpc = "scan" =>
        /\ \A id \in Scanned :
            ~relaxed[id].has_file =>
                /\ RecordsHolding(id) = {}
                /\ \A a \in 1..Len(analysed) : analysed[a] # id
        /\ Len(analysed) = Cardinality({id \in Scanned : relaxed[id].has_file})
        /\ [energies |-> energies, space_groups |-> space_groups,
            dups |-> duplicate_structure_ids]
             = ScanAll(SelectSeq(SubSeq(structure_ids, 1, k),
                                 LAMBDA id : relaxed[id].has_file), NoRecords)

\* The scan is over and passed a structure without and one with the file
C8_Witness ==
    /\ dpc = "scan"
    /\ k = Len(structure_ids)
    /\ \E id \in Scanned : ~relaxed[id].has_file
    /\ \E id \in Scanned : relaxed[id].has_file

(***************************************************************************)
(* Claims about the Niggli cell sampler and the candidate structure        *)
(* builder                                                                 *)
(***************************************************************************)
\* C11: the cell create_niggli_cell returns satisfies
\* g_min <= g1 <= g2 <= g3 <= g_max, |g4| <= g1/2, 0 <= g5 <= g1/2,
\* 0 <= g6 <= g2/2 and g1 + g2 + 2 g4 >= 2 g5 + 2 g6.
C11_NiggliInvariants ==
    (fn \in {"create_niggli_cell", "create_niggli_cell (redrawing)"} /\ fn_out # <<>>) =>
        /\ fn_in.g_min <= fn_out[1] /\ fn_out[1] <= fn_out[2]
        /\ fn_out[2] <= fn_out[3] /\ fn_out[3] <= fn_in.g_max
        /\ 2 * Abs(fn_out[4]) <= fn_out[1]
        /\ 0 <= fn_out[5] /\ 2 * fn_out[5] <= fn_out[1]
        /\ 0 <= fn_out[6] /\ 2 * fn_out[6] <= fn_out[2]
        /\ fn_out[1] + fn_out[2] + 2 * fn_out[4] >= 2 * fn_out[5] + 2 * fn_out[6]

\* A cell returned after a draw was discarded, with g4 at its lower and g5
\* at its upper limit
C11_Witness ==
    /\ fn = "create_niggli_cell (redrawing)"
    /\ fn_out # <<>>
    /\ fn_out[1] > 1
    /\ fn_out[4] = -(fn_out[1] \div 2)
    /\ fn_out[5] = fn_out[1] \div 2

\* C12: a structure create_sample_struct_file emits for two or more atoms
\* has a minimum interatomic distance of at least 0.75 d.
C12_EmittedStructureIsSpaced ==
    (spc = "done" /\ n_atom_total >= 2) => min_dist >= dist_tol

\* A structure of two or more atoms emitted after draws were rejected for
\* atoms too close
C12_Witness ==
    /\ spc = "done"
    /\ n_atom_total >= 2
    /\ dist_tol > 0
    /\ n_too_close > 0
    /\ min_dist >= dist_tol

Close(x, y) == x = y
CloseAngle(x, y) == x[1] = y[1] /\ Abs(x[2] - y[2]) <= 1

Species(elements, counts) ==
    LET b == Blocks(counts, 1) IN [a \in 1..Len(b) |-> elements[b[a]]]

\* C17: the structure file states as many atom types as there are non-zero
\* counts, has one Masses line per remaining element in the original order,
\* numbered from 1, and gives atom number a the number of the Masses line
\* of its element, the atoms of an element forming one block of its count.
C17_ZeroCountElementsElided ==
    (fn = "create_lammps_struct_file" /\ fn_out # <<>>) =>
        LET out == fn_out[1]
            nonzero == {j \in 1..Len(fn_in.counts) : fn_in.counts[j] # 0}
            species == Species(fn_in.elements, fn_in.counts)
        IN  /\ out.n_type = Cardinality(nonzero)
            /\ Len(out.masses) = Cardinality(nonzero)
            /\ \A t \in 1..Len(out.masses) :
                /\ out.masses[t][1] = t
                /\ \E j \in nonzero :
                    /\ out.masses[t][2] = fn_in.elements[j]
                    /\ Cardinality({m \in nonzero : m < j}) = t - 1
            /\ Len(out.atoms) = SumSeq(fn_in.counts)
            /\ \A a \in 1..Len(out.atoms) :
                /\ out.atoms[a][1] = a
                /\ out.atoms[a][2] \in 1..Len(out.masses)
                /\ out.masses[out.atoms[a][2]][2] = species[a]

\* A file for three elements of which the middle one has no atoms
C17_Witness ==
    /\ fn = "create_lammps_struct_file"
    /\ fn_out # <<>>
    /\ fn_in.counts = <<2, 0, 1>>
    /\ fn_out[1].n_type = 2
    /\ fn_out[1].atoms = << <<1, 1>>, <<2, 1>>, <<3, 2>> >>

\* The directives of a command file: its lines that are neither empty nor
\* comments
Directives(content) == SelectSeq(content, LAMBDA l : l # <<>> /\ l[1] # "#")
\* The box/relax style in force at each minimize directive, in order
RECURSIVE Schedule(_, _)
Schedule(directives, style) ==
    IF directives = <<>> THEN <<>>
    ELSE LET l == Head(directives)
         IN  IF l[1] = "minimize" THEN <<style>> \o Schedule(Tail(directives), style)
             ELSE IF l[1] = "fix" THEN Schedule(Tail(directives), l[5])
             ELSE IF l[1] = "unfix" THEN Schedule(Tail(directives), "atoms")
             ELSE Schedule(Tail(directives), style)

\* C19: with fewer than 10 atoms the command file has one minimize directive
\* under a triclinic box/relax fix, otherwise four: atoms only, isotropic,
\* anisotropic, triclinic; the pair_coeff line lists the elements with a
\* non-zero count in their original order, and the last directive writes
\* final_structure_<relaxation_id>.
C19_ScheduleFollowsAtomCount ==
    (fn = "create_lammps_command_file" /\ fn_out # <<>>) =>
        LET d == Directives(fn_out)
            n_atom == fn_in.counts[1] + fn_in.counts[2]
            pair == SelectSeq(d, LAMBDA l : l[1] = "pair_coeff")
        IN  /\ Schedule(d, "atoms") =
                    IF n_atom < 10 THEN <<"tri">>
                    ELSE <<"atoms", "iso", "aniso", "tri">>
            /\ Len(pair) = 1
            /\ SubSeq(pair[1], 5, Len(pair[1])) =
                    SelectSeq(fn_in.elements,
                              LAMBDA x : \E j \in 1..2 : fn_in.elements[j] = x
                                                        /\ fn_in.counts[j] # 0)
            /\ d[Len(d)] = <<"write_data", "final_structure_", fn_in.relaxation_id>>

\* The command file of the second stage for 10 atoms
C19_Witness ==
    /\ fn = "create_lammps_command_file"
    /\ fn_out # <<>>
    /\ fn_in.relaxation_id = "02"
    /\ fn_in.counts = <<3, 7>>
    /\ Len(SelectSeq(fn_out, LAMBDA l : l # <<>> /\ l[1] = "minimize")) = 4

(***************************************************************************)
(* Claims about the diatomic energy sampler                                *)
(***************************************************************************)
\* C15: when _calc_diatom_energy exits, by return or by exception, every
\* temporary file it created has been closed (and thereby deleted).
C15_TemporaryFilesReleased ==
    dia_pc \in {"returned", "raised"} =>
        /\ struct_file_object.state \in {"none", "closed"}
        /\ command_file_object.state \in {"none", "closed"}

(***************************************************************************)
(* Claims about the directory ids                                          *)
(***************************************************************************)
\* The ids of the child directories named with N_DIGIT digits
IdsOf(entries) ==
    {IntOf(p.name) : p \in {q \in entries : q.is_dir /\ Len(q.name) = N_DIGIT
                                            /\ IntOf(q.name) # -1}}

\* C18: calc_begin_id_of_dir returns 1 when the root directory has no child
\* directory named with an n_digit-digit id and otherwise the largest such id
\* plus 1; the id is not the id of an existing child directory, and
\* allocating an id and creating its directory repeatedly never returns an
\* id twice.
C18_BeginIdIsLargestPlusOne ==
    /\ \A a \in 1..Len(begin_ids) :
        LET ids == IdsOf(begin_ids[a].before)
        IN  /\ begin_ids[a].id = IF ids = {} THEN 1 ELSE MaxOf(ids) + 1
            /\ begin_ids[a].id \notin ids
    /\ \A a, b \in 1..Len(begin_ids) :
        a < b => begin_ids[a].id # begin_ids[b].id

(***************************************************************************)
(* Claims about the files of a structure directory                         *)
(***************************************************************************)
CallsOf(rid) == SelectSeq(calls, LAMBDA c : c.rid = rid)

ArchivesKept(files_before, files_after) ==
    \A name \in DOMAIN files_before :
        name[2] # 0 => (name \in DOMAIN files_after
                            /\ files_after[name] = files_before[name])

C20_ArchivedInputIsPreviousOutput ==
    \A rid \in Rids :
        LET cs == CallsOf(rid)
        IN  \A n \in 1..Len(cs) :
                /\ cs[n].ended = "returned" =>
                    /\ HasFile(initial_structure, <<rid, n>>)
                    /\ HasFile(final_structure, <<rid, n>>)
                /\ (n < Len(cs)) =>
                    /\ HasFile(initial_structure, <<rid, n + 1>>)
                    /\ initial_structure[<<rid, n + 1>>] = final_structure[<<rid, n>>]
                    /\ initial_structure[<<rid, n + 1>>] # initial_structure[<<rid, n>>]

C20_ArchivesNeverOverwritten ==
    [][sid' = sid => /\ ArchivesKept(log_file, log_file')
                     /\ ArchivesKept(final_structure, final_structure')
                     /\ ArchivesKept(initial_structure, initial_structure')]_vars

C20_ArchiveBeforePromotion ==
    []C20_ArchivedInputIsPreviousOutput /\ C20_ArchivesNeverOverwritten

\* The third cycle of stage 1 has returned: its archived input is the output
\* of the second cycle, and the un-suffixed input is already its own output
C20_Witness ==
    /\ pc = "stage1"
    /\ Len(calls) = 3
    /\ initial_structure[<<"01", 3>>] = final_structure[<<"01", 2>>]
    /\ initial_structure[<<"01", 0>>] = final_structure[<<"01", 3>>]
    /\ initial_structure[<<"01", 3>>] # initial_structure[<<"01", 0>>]

(***************************************************************************)
(* Further claims about the candidate structure builder                    *)
(***************************************************************************)
\* C21: g_min starts at 0 and after k rejections by the distance test is
\* min(k, 1000) * g_max / 1000; a pass rejected at the volume check changes
\* neither the counter nor g_min; g_min never decreases and never exceeds
\* g_max.
C21_GMinFollowsRejections ==
    LET attempts == IF n_too_close < MAX_CNT THEN n_too_close ELSE MAX_CNT
    IN  spc \in {"loop", "done"} =>
            /\ cnt = attempts
            /\ g_min = (attempts * G_MAX) \div 1000
            /\ 0 <= g_min /\ g_min <= G_MAX

C21_GMinSteps ==
    [][/\ g_min' >= g_min
       /\ (spc = "loop" /\ spc' = "loop" /\ n_too_close' = n_too_close) =>
            (cnt' = cnt /\ g_min' = g_min)]_vars

C21_GMinWidening == []C21_GMinFollowsRejections /\ C21_GMinSteps

\* A structure emitted after more than 1000 rejections by the distance test,
\* g_min at g_max
C21_Witness ==
    /\ spc = "done"
    /\ n_too_close = MAX_CNT + 1
    /\ cnt = MAX_CNT
    /\ g_min = G_MAX

\* C22: the tolerance of has_enough_space_between_atoms comes from the
\* largest characteristic distance among the elements whose atom count is
\* not zero; an element listed with count 0 has no effect on the result.
C22_AbsentElementsIgnored ==
    (fn = "has_enough_space_between_atoms" /\ fn_out # <<>>) =>
        LET present == { fn_in.elements[j] : j \in { n \in 1..2 : fn_in.counts[n] > 0 } }
            d == MaxOf({ ATOM_INFO[e] : e \in present })
            q == min_distance_of(SumSeq(fn_in.counts), fn_in.smallest)
        IN  present # {} => (fn_out[1] <=> 4 * q >= 3 * d)

\* The first integer volume at which the volume check of
\* check_previous_relaxation stops a structure
VolumeCeiling(structure) ==
    CHOOSE v \in 1..3000 :
        /\ volume_reaches_ceiling([structure EXCEPT !.volume = v])
        /\ ~volume_reaches_ceiling([structure EXCEPT !.volume = v - 1])

\* C23: the volume ceiling of check_previous_relaxation is computed from the
\* atom count and the largest characteristic distance: for the same
\* elements, a structure with more atoms gets a larger ceiling.
C23_CeilingGrowsWithAtomCount ==
    (cls_out.done /\ ~cls_out.raised) =>
        \A t \in ClsStructures \ {NoStruct} :
            (t.d = cls_in.structure.d /\ t.n_atom > cls_in.structure.n_atom) =>
                VolumeCeiling(t) > VolumeCeiling(cls_in.structure)

\* C24: convert_niggli_cell_to_system_params raises no domain or division
\* error on any cell create_niggli_cell(g_max, g_min) returns for g_max > 0
\* and 0 <= g_min <= g_max: g1 > 0, g2 - xy^2 > 0 and g3 - xz^2 - yz^2 >= 0.
C24_NoDomainError ==
    (fn = "convert_niggli_cell_to_system_params" /\ fn_out # <<>>) =>
        /\ fn_out[1].raised = ""
        /\ fn_out[1].xhi2 > 0
        /\ fn_out[1].yhi2 > 0
        /\ fn_out[1].zhi2 >= 0

\* The same for the cells drawn with g_min > 0
C24_NoDomainErrorAbovePositiveGMin ==
    (fn = "convert_niggli_cell_to_system_params" /\ fn_out # <<>> /\ fn_in.g_min > 0) =>
        /\ fn_out[1].raised = ""
        /\ fn_out[1].xhi2 > 0
        /\ fn_out[1].yhi2 > 0
        /\ fn_out[1].zhi2 >= 0

\* The angle the claim gives for a ratio: 180 below -1, 0 above 1, the
\* arccosine in between (180 at -1, 0 at 1)
AngleClaimed(r, angle) ==
    CASE r \in {<<-3, 0>>, <<-2, 1>>, <<-2, 0>>} -> angle = <<180, 0>>
      [] r = <<-1, 0>> -> angle = <<120, 0>>
      [] r = <<0, 0>> -> angle = <<90, 0>>
      [] r = <<1, 0>> -> angle = <<60, 0>>
      [] r = <<2, 1>> -> angle[1] = 0 /\ angle[2] > 0 /\ angle[2] < 1000000
      [] r \in {<<2, 0>>, <<2, -1>>, <<3, 0>>} -> angle = <<0, 0>>

\* C25: for positive norms _calc_angle_from_inner_product returns 180 for a
\* ratio below -1, 0 for a ratio above 1 and otherwise the arccosine in
\* [0, 180] (180 and 0 for -1 and 1); convert_niggli_cell_to_lattice_constants
\* takes gamma from g4, beta from g5 and alpha from g6, so that
\* [4, 81, 1, 0, 0, -4.5] gives (2, 9, 1, 120, 90, 90).
C25_AnglesFromInnerProducts ==
    (fn = "convert_niggli_cell_to_lattice_constants" /\ fn_out # <<>>) =>
        LET l == fn_out[1]
        IN  /\ l[1] * l[1] = fn_in.niggli[1]
            /\ l[2] * l[2] = fn_in.niggli[2]
            /\ l[3] * l[3] = fn_in.niggli[3]
            /\ AngleClaimed(fn_in.ratios[1], l[6])
            /\ AngleClaimed(fn_in.ratios[2], l[5])
            /\ AngleClaimed(fn_in.ratios[3], l[4])
            /\ \A j \in 4..6 : l[j][1] >= 0 /\ l[j][1] <= 180
            /\ (fn_in.niggli = <<4, 81, 1, <<0, 0>>, <<0, 0>>, <<-9, 0>> >>) =>
                    l = <<2, 9, 1, <<120, 0>>, <<90, 0>>, <<90, 0>> >>

\* The cell [4, 81, 1, 0, 0, -4.5] converted
C25_Witness ==
    /\ fn = "convert_niggli_cell_to_lattice_constants"
    /\ fn_in.niggli = <<4, 81, 1, <<0, 0>>, <<0, 0>>, <<-9, 0>> >>
    /\ fn_out = << <<2, 9, 1, <<120, 0>>, <<90, 0>>, <<90, 0>> >> >>

\* A cell with one ratio below -1, one above 1 and one next to 1 converted
C25_ClampWitness ==
    /\ fn = "convert_niggli_cell_to_lattice_constants"
    /\ fn_out # <<>>
    /\ fn_in.ratios = << <<-3, 0>>, <<3, 0>>, <<2, 1>> >>
    /\ fn_out[1][6] = <<180, 0>>
    /\ fn_out[1][5] = <<0, 0>>

C26_IdsGrowWithEnergy ==
    \A p, q \in 1..Len(begin_ids) :
        p < q => /\ begin_ids[p].dir < begin_ids[q].dir
                 /\ begin_ids[p].struct_info_json.energy
                        <= begin_ids[q].struct_info_json.energy
====
